---- MODULE Spec2Model ----
(***************************************************************************)
(* The /aspect_hits handler of app.py (the fixed-step membership scan) as  *)
(* a state machine.  One behaviour is one request: Init draws the request  *)
(* body and the ephemeris, the actions are the handler's validation, its   *)
(* three nested loops, and the final sort.                                  *)
(*                                                                         *)
(* Numbers.  Longitudes, aspects and the orb are whole degrees.  A Julian  *)
(* day is counted in ticks of 1/TicksPerMinute minute from midnight of the *)
(* first day of Calendar, so jd, step and the fraction of a day are exact. *)
(* A timestamp string is the sequence of the character codes of its text,  *)
(* so that comparing two of them is the lexicographic comparison list.sort *)
(* makes.                                                                   *)
(***************************************************************************)
EXTENDS Integers, Sequences, FiniteSets, TLC

VARIABLES req, eph, pc, targets, aspects, jd_start, jd_end, step,
          ti, bi, dyn_pl_id, base_t_lon, pl_id, jd_curr, hits, spins, response

vars == <<req, eph, pc, targets, aspects, jd_start, jd_end, step,
          ti, bi, dyn_pl_id, base_t_lon, pl_id, jd_curr, hits, spins, response>>

-----------------------------------------------------------------------------
(* Units *)

\* resolution of the model's clock: ticks in one minute
TicksPerMinute == 2
\* iterations of a sampling loop that does not advance (step <= 0) that are explored
MaxSpin == 3

MinutesPerHour == 60
HoursPerDay == 24
FullCircle == 360

TicksPerHour == MinutesPerHour * TicksPerMinute
TicksPerDay == HoursPerDay * TicksPerHour

Abs(x) == IF x < 0 THEN 0 - x ELSE x
Min(a, b) == IF a <= b THEN a ELSE b

-----------------------------------------------------------------------------
(* Body names: str.upper and getattr(swe, NAME, None) *)

SUN == 0
MOON == 1
NoneId == -1

Upper(s) ==
    CASE s = "sun" -> "SUN"
      [] s = "moon" -> "MOON"
      [] s = "xx" -> "XX"
      [] s = "fortune" -> "FORTUNE"
      [] OTHER -> s

\* getattr(swe, name, None): the body constants of the ephemeris module
GetAttr(name) ==
    CASE name = "SUN" -> SUN
      [] name = "MOON" -> MOON
      [] OTHER -> NoneId

-----------------------------------------------------------------------------
(* Calendar: dateutil's isoparse, swe.julday and swe.revjul on the days    *)
(* the requests of this model name.                                         *)

Calendar == << <<2023, 12, 30>>, <<2023, 12, 31>>, <<2024, 1, 1>>, <<2024, 1, 2>> >>

\* parser.isoparse(s + "T00:00"): <<ok, y, m, d, hour, minute>>
IsoParse(s) ==
    CASE s = "2023-12-30" -> <<TRUE, 2023, 12, 30, 0, 0>>
      [] s = "2023-12-31" -> <<TRUE, 2023, 12, 31, 0, 0>>
      [] s = "2024-01-01" -> <<TRUE, 2024, 1, 1, 0, 0>>
      [] s = "2024-01-02" -> <<TRUE, 2024, 1, 2, 0, 0>>
      [] OTHER -> <<FALSE, 0, 0, 0, 0, 0>>

\* swe.julday(y, m, d, hour): ticks since midnight of Calendar[1]
JulDay(y, m, d, hourTicks) ==
    ((CHOOSE i \in DOMAIN Calendar : Calendar[i] = <<y, m, d>>) - 1) * TicksPerDay + hourTicks

\* _to_julian(dt_iso) for a parseable string
ToJulian(s) ==
    LET dt == IsoParse(s)
    IN  JulDay(dt[2], dt[3], dt[4], dt[5] * TicksPerHour + dt[6] * TicksPerMinute)

\* swe.revjul(jd): <<y, m, d, ut>>, ut (hours) in ticks
RevJul(jd) ==
    LET day == Calendar[(jd \div TicksPerDay) + 1]
    IN  <<day[1], day[2], day[3], jd % TicksPerDay>>

-----------------------------------------------------------------------------
(* Ephemeris: swe.calc_ut(jd, id) -> longitude, speed.  A body moves at    *)
(* rate degrees per tick from lon0 (its longitude at tick 0) and reverses   *)
(* at its station.                                                          *)

EphPath(p, jd) == IF jd < p.station THEN jd ELSE 2 * p.station - jd

\* pos[0]: may lie outside [0, 360) before the caller's % 360
CalcLon(sky, id, jd) == sky[id].lon0 + sky[id].rate * EphPath(sky[id], jd)

\* pos[3]
CalcSpeed(sky, id, jd) == IF jd < sky[id].station THEN sky[id].rate ELSE 0 - sky[id].rate

-----------------------------------------------------------------------------
(* Timestamp formatting *)

Pow10(k) == IF k = 0 THEN 1 ELSE IF k = 1 THEN 10 ELSE IF k = 2 THEN 100
            ELSE IF k = 3 THEN 1000 ELSE 10000

NumDigits(n) == IF n < 10 THEN 1 ELSE IF n < 100 THEN 2 ELSE IF n < 1000 THEN 3
                ELSE IF n < 10000 THEN 4 ELSE 5

\* f"{n:0wd}" for n >= 0, as character codes ("0" is 48)
ZeroPad(n, w) ==
    LET len == IF NumDigits(n) > w THEN NumDigits(n) ELSE w
    IN  [i \in 1..len |-> 48 + ((n \div Pow10(len - i)) % 10)]

\* int(ut): the whole hours of ut
IntHours(ut) == ut \div TicksPerHour

\* round(x) of Python 3 for x = n/d >= 0: to nearest, ties to even
PyRound(n, d) ==
    LET q == n \div d
        r == n % d
    IN  IF 2 * r < d THEN q
        ELSE IF 2 * r > d THEN q + 1
        ELSE IF q % 2 = 0 THEN q ELSE q + 1

\* int(round((ut - hr) * 60))
Minutes(ut, hr) == PyRound((ut - hr * TicksPerHour) * MinutesPerHour, TicksPerHour)

\* f"{y:04d}-{m:02d}-{d:02d}T{hr:02d}:{mi:02d}Z"
FormatTs(y, m, d, hr, mi) ==
    ZeroPad(y, 4) \o <<45>> \o ZeroPad(m, 2) \o <<45>> \o ZeroPad(d, 2) \o <<84>>
        \o ZeroPad(hr, 2) \o <<58>> \o ZeroPad(mi, 2) \o <<90>>

\* lines 147-150: the utc string of a sampled instant
Timestamp(jd) ==
    LET r == RevJul(jd)
        hr == IntHours(r[4])
        mi == Minutes(r[4], hr)
    IN  FormatTs(r[1], r[2], r[3], hr, mi)

-----------------------------------------------------------------------------
(* The membership test *)

\* delta = (lon_body - t_lon + 360) % 360
Delta(lon_body, t_lon) == (lon_body - t_lon + FullCircle) % FullCircle

\* the defect without the fold over the full circle
DefectNoFold(delta, asp) == Abs(delta - asp)

\* diff = min(abs(delta - asp), 360 - abs(delta - asp))
Defect(delta, asp) == Min(Abs(delta - asp), FullCircle - Abs(delta - asp))

\* the comparison turned round
MatchesReversed(delta, asp, orb) == Defect(delta, asp) >= orb

\* if diff <= orb
Matches(delta, asp, orb) == Defect(delta, asp) <= orb

\* a standing body taken as retrograde
MotionZeroRetro(spd) == IF spd <= 0 THEN "R" ELSE "D"

\* "R" if spd_lon_body < 0 else "D"
Motion(spd) == IF spd < 0 THEN "R" ELSE "D"

\* the dict appended to hits; jd is a history field (the instant the event
\* was sampled at), not part of the response
Event(body, jd, spd) ==
    [planet |-> Upper(body), utc |-> Timestamp(jd), motion |-> Motion(spd), jd |-> jd]

\* the aspect loop without its break
RECURSIVE AspectLoopNoBreak(_, _, _, _)
AspectLoopNoBreak(asps, delta, orb, ev) ==
    IF asps = <<>> THEN <<>>
    ELSE (IF Defect(delta, Head(asps)) <= orb THEN <<ev>> ELSE <<>>)
         \o AspectLoopNoBreak(Tail(asps), delta, orb, ev)

\* for asp in aspects: if diff <= orb: hits.append(...); break
RECURSIVE AspectLoop(_, _, _, _)
AspectLoop(asps, delta, orb, ev) ==
    IF asps = <<>> THEN <<>>
    ELSE IF Matches(delta, Head(asps), orb) THEN <<ev>>
    ELSE AspectLoop(Tail(asps), delta, orb, ev)

\* lon_body = pos_body[0] % 360
BodyLon(sky, id, jd) == CalcLon(sky, id, jd) % FullCircle

\* lines 136-140: t_lon of a dynamic target, or of a fixed one
TargetLon(sky, dyn, base, jd) == IF dyn # NoneId THEN CalcLon(sky, dyn, jd) % FullCircle ELSE base

\* one pass of the while body (lines 133-156): the events it appends
SampleEvents(sky, body, id, dyn, base, asps, orb, jd) ==
    AspectLoop(asps, Delta(BodyLon(sky, id, jd), TargetLon(sky, dyn, base, jd)), orb,
               Event(body, jd, CalcSpeed(sky, id, jd)))

-----------------------------------------------------------------------------
(* hits.sort(key=lambda h: h["utc"]): a stable sort on the utc string *)

\* a < b for two strings
StrLess(a, b) ==
    \/ \E i \in 1..Min(Len(a), Len(b)) :
          /\ a[i] < b[i]
          /\ \A j \in 1..(i - 1) : a[j] = b[j]
    \/ /\ Len(a) < Len(b)
       /\ \A j \in 1..Len(a) : a[j] = b[j]

\* the position of h[i] after the stable sort
SortedPos(h, i) ==
    Cardinality({j \in 1..Len(h) :
                    \/ StrLess(h[j].utc, h[i].utc)
                    \/ (h[j].utc = h[i].utc /\ j <= i)})

\* the list left in the order of its appends
NoSort(h) == h


SortByUtc(h) == [r \in 1..Len(h) |-> h[CHOOSE i \in 1..Len(h) : SortedPos(h, i) = r]]

\* jsonify(hits): the dicts as the caller receives them
Jsonify(h) == [i \in 1..Len(h) |-> [planet |-> h[i].planet, utc |-> h[i].utc, motion |-> h[i].motion]]

-----------------------------------------------------------------------------
(* The request body (request.get_json) *)

NoChart == [n \in {} |-> 0]

Num(n) == [type |-> "num", num |-> n, str |-> ""]
Str(s) == [type |-> "str", num |-> 0, str |-> s]
Null == [type |-> "null", num |-> 0, str |-> ""]

Missing == [kind |-> "missing", items |-> <<>>]
List(items) == [kind |-> "list", items |-> items]
\* a JSON string where a list is expected: iterating it yields its characters
Chars(items) == [kind |-> "str", items |-> items]
\* a JSON number where a list is expected
Number == [kind |-> "num", items |-> <<>>]
Scalar(v) == [kind |-> "scalar", items |-> <<v>>]

Given(s) == [kind |-> "str", str |-> s]
NotGiven == [kind |-> "missing", str |-> ""]

Request(b, t, a, o, s, e, h, n) ==
    [bodies |-> b, target |-> t, aspect |-> a, orb |-> o, jd_start |-> s, jd_end |-> e,
     step_hours |-> h, natal_chart |-> n]

\* not bodies
Falsy(b) == b.kind = "missing" \/ (b.kind \in {"list", "str"} /\ b.items = <<>>)

\* target_raw is None or jd_start_s is None or jd_end_s is None
MissingField(r) ==
    r.target.kind = "missing" \/ r.jd_start.kind = "missing" \/ r.jd_end.kind = "missing"

\* lines 97-100: the request is answered 400
Rejected(r) == Falsy(r.bodies) \/ MissingField(r)

\* lines 105-106: _to_julian raises on one of the two dates
DateFails(r) == ~IsoParse(r.jd_start.str)[1] \/ ~IsoParse(r.jd_end.str)[1]

\* step = step_hours / 24.0 (days); step_hours and step are both in ticks
StepOf(r) == (r.step_hours * TicksPerDay) \div (HoursPerDay * TicksPerHour)

\* lines 113-124: <<resolved, dyn_pl_id, base_t_lon>> of one target
ResolveTarget(t, natal) ==
    IF t.type = "num" THEN <<TRUE, NoneId, t.num % FullCircle>>
    ELSE IF t.type = "str" THEN
        IF Upper(t.str) \in DOMAIN natal
        THEN <<TRUE, NoneId, natal[Upper(t.str)] % FullCircle>>
        ELSE IF GetAttr(Upper(t.str)) = NoneId THEN <<FALSE, NoneId, NoneId>>
        ELSE <<TRUE, GetAttr(Upper(t.str)), NoneId>>
    ELSE <<FALSE, NoneId, NoneId>>

\* an unknown name taken as the ephemeris module's body 0
ResolveBodyDefault(body) == IF GetAttr(Upper(body)) = NoneId THEN SUN ELSE GetAttr(Upper(body))

\* line 127: pl_id = getattr(swe, body.upper(), None)
ResolveBody(body) == GetAttr(Upper(body))

-----------------------------------------------------------------------------
(* The handler *)

Error(code) == [status |-> code, body |-> <<>>]
NoResponse == [status |-> 0, body |-> <<>>]

\* lines 97-100
Reject ==
    /\ pc = "validate"
    /\ Rejected(req)
    /\ response' = Error(400)
    /\ pc' = "done"
    /\ UNCHANGED <<req, eph, targets, aspects, jd_start, jd_end, step, ti, bi,
                   dyn_pl_id, base_t_lon, pl_id, jd_curr, hits, spins>>

\* lines 105-106: the exception of _to_julian is not caught: Flask answers 500
ParseError ==
    /\ pc = "validate"
    /\ ~Rejected(req)
    /\ DateFails(req)
    /\ response' = Error(500)
    /\ pc' = "done"
    /\ UNCHANGED <<req, eph, targets, aspects, jd_start, jd_end, step, ti, bi,
                   dyn_pl_id, base_t_lon, pl_id, jd_curr, hits, spins>>

\* lines 102-109
Accept ==
    /\ pc = "validate"
    /\ ~Rejected(req)
    /\ ~DateFails(req)
    /\ targets' = req.target.items
    /\ aspects' = req.aspect.items
    /\ jd_start' = ToJulian(req.jd_start.str)
    /\ jd_end' = ToJulian(req.jd_end.str)
    /\ step' = StepOf(req)
    /\ hits' = <<>>
    /\ ti' = 1
    /\ pc' = "target"
    /\ UNCHANGED <<req, eph, bi, dyn_pl_id, base_t_lon, pl_id, jd_curr, spins, response>>

\* lines 111-126: the next target, up to the start of its loop over bodies
ForTarget ==
    /\ pc = "target"
    /\ IF ti > Len(targets)
       THEN /\ pc' = "sort"
            /\ UNCHANGED <<ti, bi, dyn_pl_id, base_t_lon, response>>
       ELSE LET res == ResolveTarget(targets[ti], req.natal_chart)
            IN  IF ~res[1]
                THEN /\ ti' = ti + 1
                     /\ UNCHANGED <<pc, bi, dyn_pl_id, base_t_lon, response>>
                ELSE /\ dyn_pl_id' = res[2]
                     /\ base_t_lon' = res[3]
                     /\ IF req.bodies.kind = "num"
                        THEN \* for body in bodies: a number is not iterable
                             /\ response' = Error(500)
                             /\ pc' = "done"
                             /\ UNCHANGED <<ti, bi>>
                        ELSE /\ bi' = 1
                             /\ pc' = "body"
                             /\ UNCHANGED <<ti, response>>
    /\ UNCHANGED <<req, eph, targets, aspects, jd_start, jd_end, step, pl_id, jd_curr,
                   hits, spins>>

\* lines 126-131: the next body, up to the start of its sampling loop
ForBody ==
    /\ pc = "body"
    /\ IF bi > Len(req.bodies.items)
       THEN /\ ti' = ti + 1
            /\ pc' = "target"
            /\ UNCHANGED <<bi, pl_id, jd_curr, spins>>
       ELSE IF ResolveBody(req.bodies.items[bi]) = NoneId
       THEN /\ bi' = bi + 1
            /\ UNCHANGED <<ti, pc, pl_id, jd_curr, spins>>
       ELSE /\ pl_id' = ResolveBody(req.bodies.items[bi])
            /\ jd_curr' = jd_start
            /\ spins' = 0
            /\ pc' = "while"
            /\ UNCHANGED <<ti, bi>>
    /\ UNCHANGED <<req, eph, targets, aspects, jd_start, jd_end, step, dyn_pl_id,
                   base_t_lon, hits, response>>

\* lines 132-157: one pass of the while body.  A loop that does not advance
\* is followed for MaxSpin passes.
Sample ==
    /\ pc = "while"
    /\ jd_curr <= jd_end
    /\ step > 0 \/ spins < MaxSpin
    /\ hits' = hits \o SampleEvents(eph, req.bodies.items[bi], pl_id, dyn_pl_id, base_t_lon,
                                    aspects, req.orb, jd_curr)
    /\ jd_curr' = jd_curr + step
    /\ spins' = IF step > 0 THEN spins ELSE spins + 1
    /\ UNCHANGED <<req, eph, pc, targets, aspects, jd_start, jd_end, step, ti, bi,
                   dyn_pl_id, base_t_lon, pl_id, response>>

\* line 132: the while condition fails; on to the next body
EndWhile ==
    /\ pc = "while"
    /\ jd_curr > jd_end
    /\ bi' = bi + 1
    /\ pc' = "body"
    /\ UNCHANGED <<req, eph, targets, aspects, jd_start, jd_end, step, ti,
                   dyn_pl_id, base_t_lon, pl_id, jd_curr, hits, spins, response>>

\* lines 159-160
SortAndReturn ==
    /\ pc = "sort"
    /\ hits' = SortByUtc(hits)
    /\ response' = [status |-> 200, body |-> Jsonify(SortByUtc(hits))]
    /\ pc' = "done"
    /\ UNCHANGED <<req, eph, targets, aspects, jd_start, jd_end, step, ti, bi,
                   dyn_pl_id, base_t_lon, pl_id, jd_curr, spins>>

Next == Reject \/ ParseError \/ Accept \/ ForTarget \/ ForBody \/ Sample \/ EndWhile
            \/ SortAndReturn

-----------------------------------------------------------------------------
(* The scan as a function of the request: lines 109-159 for an accepted    *)
(* request whose bodies can be iterated and whose step is positive.        *)

\* the while loop of one (target, body) pair over the samples lo..hi
RECURSIVE WhileLoop(_, _, _, _, _, _, _, _)
WhileLoop(sky, r, body, id, res, start, lo, hi) ==
    IF lo > hi THEN <<>>
    ELSE IF lo = hi
    THEN SampleEvents(sky, body, id, res[2], res[3], r.aspect.items, r.orb,
                      start + lo * StepOf(r))
    ELSE LET mid == (lo + hi) \div 2
         IN  WhileLoop(sky, r, body, id, res, start, lo, mid)
                 \o WhileLoop(sky, r, body, id, res, start, mid + 1, hi)

\* the number of instants jd_start + k * step <= jd_end
NumSamples(r) ==
    LET a == ToJulian(r.jd_start.str)
        b == ToJulian(r.jd_end.str)
    IN  IF a > b THEN 0 ELSE ((b - a) \div StepOf(r)) + 1

RECURSIVE BodyLoop(_, _, _, _)
BodyLoop(sky, r, res, bs) ==
    IF bs = <<>> THEN <<>>
    ELSE (IF ResolveBody(Head(bs)) = NoneId THEN <<>>
          ELSE WhileLoop(sky, r, Head(bs), ResolveBody(Head(bs)), res,
                         ToJulian(r.jd_start.str), 0, NumSamples(r) - 1))
         \o BodyLoop(sky, r, res, Tail(bs))

RECURSIVE TargetLoop(_, _, _)
TargetLoop(sky, r, ts) ==
    IF ts = <<>> THEN <<>>
    ELSE (IF ~ResolveTarget(Head(ts), r.natal_chart)[1] THEN <<>>
          ELSE BodyLoop(sky, r, ResolveTarget(Head(ts), r.natal_chart), r.bodies.items))
         \o TargetLoop(sky, r, Tail(ts))

ScanHits(sky, r) == SortByUtc(TargetLoop(sky, r, r.target.items))

\* the requests ScanHits is defined on
Scannable(r) == ~Rejected(r) /\ ~DateFails(r) /\ r.bodies.kind # "num" /\ StepOf(r) > 0

-----------------------------------------------------------------------------
(* The requests and ephemerides explored *)

T0 == ToJulian("2023-12-31")
Never == Len(Calendar) * TicksPerDay
Turn == T0 + 10 * TicksPerHour

Body(l, r, s) == [lon0 |-> l, rate |-> r, station |-> s]

SunChoices == {Body(359, 1, Never), Body(359, -1, Never), Body(0, 1, Turn), Body(0, -1, Turn)}
MoonChoices == {Body(0, 1, Never), Body(90, 0, Never), Body(180, -1, Never)}

Skies == {[id \in {SUN, MOON} |-> IF id = SUN THEN s ELSE m] : s \in SunChoices, m \in MoonChoices}

Chart == [n \in {"FORTUNE"} |-> 450]
MoonChart == [n \in {"MOON"} |-> 0]

\* step_hours, in ticks
TenHours == 10 * TicksPerHour
OneDay == HoursPerDay * TicksPerHour

BodiesChoices ==
    {List(<<"SUN">>), List(<<"sun", "MOON">>), List(<<"XX", "moon">>), List(<<"MOON", "xx", "SUN">>)}

TargetChoices ==
    {Scalar(Num(0)), Scalar(Num(450)), Scalar(Str("moon")), Scalar(Str("SUN")),
     Scalar(Str("fortune")), Scalar(Str("XX")), List(<<Str("xx"), Num(0)>>),
     List(<<Null, Str("MOON"), Num(90)>>)}

AspectChoices ==
    {Scalar(0), List(<<180>>), List(<<0, 360>>), List(<<180, 0>>), List(<<720>>), List(<<>>)}

OrbChoices == {0, 1}

\* the scan over one day at a step of ten hours
CoreRequests ==
    {Request(b, t, a, o, Given("2023-12-31"), Given("2024-01-01"), TenHours, Chart) :
        b \in BodiesChoices, t \in TargetChoices, a \in AspectChoices, o \in OrbChoices}

\* string targets against other natal charts
ChartRequests ==
    {Request(List(<<"SUN">>), Scalar(Str(t)), Scalar(0), o, Given("2023-12-31"),
             Given("2024-01-01"), TenHours, n) :
        t \in {"fortune", "moon"}, o \in OrbChoices, n \in {NoChart, MoonChart}}

\* windows and steps, among them the empty window and the steps that do not advance
WindowRequests ==
    {Request(List(<<"sun", "MOON">>), t, Scalar(0), 0, Given("2023-12-31"), Given(e), h, Chart) :
        t \in {Scalar(Num(0)), Scalar(Str("moon"))},
        e \in {"2023-12-30", "2023-12-31", "2024-01-01"},
        h \in {0 - 1, 0, TicksPerHour, TenHours, OneDay}}

\* a day sampled every tick
FineRequests ==
    {Request(List(<<"SUN", "MOON">>), Scalar(Num(0)), Scalar(0), 0, Given("2023-12-31"),
             Given("2024-01-01"), 1, Chart)}

\* requests that miss a field, name no date, or give bodies that is not a list
MalformedRequests ==
    {Request(b, Scalar(Num(0)), Scalar(0), 0, Given("2023-12-31"), Given("2024-01-01"),
             TenHours, Chart) :
        b \in {Missing, List(<<>>), Chars(<<>>), Chars(<<"S", "U", "N">>), Number}}
    \cup
    {Request(List(<<"SUN">>), t, Scalar(0), 0, s, e, TenHours, Chart) :
        t \in {Missing, Scalar(Num(0))},
        s \in {NotGiven, Given("31/12/2023"), Given("2023-12-31")},
        e \in {NotGiven, Given("tomorrow"), Given("2024-01-01")}}

Requests == CoreRequests \cup ChartRequests \cup WindowRequests \cup FineRequests
                \cup MalformedRequests

Init ==
    /\ req \in Requests
    /\ eph \in Skies
    /\ pc = "validate"
    /\ targets = <<>>
    /\ aspects = <<>>
    /\ jd_start = 0
    /\ jd_end = 0
    /\ step = 0
    /\ ti = 0
    /\ bi = 0
    /\ dyn_pl_id = NoneId
    /\ base_t_lon = NoneId
    /\ pl_id = NoneId
    /\ jd_curr = 0
    /\ hits = <<>>
    /\ spins = 0
    /\ response = NoResponse

Spec == Init /\ [][Next]_vars

\* the handler and the scan as a function agree
ScanAgrees == (pc = "done" /\ Scannable(req)) => (response.status = 200 /\ hits = ScanHits(eph, req))

-----------------------------------------------------------------------------
(* What the claims speak of *)

Items == req.bodies.items
Done == pc = "done"
Returned == pc = "done" /\ response.status = 200

\* the name is no body of the ephemeris module
Unknown(name) == GetAttr(Upper(name)) = NoneId

\* the target resolves to a longitude or to a moving body
Resolvable(r, t) == ResolveTarget(t, r.natal_chart)[1]

\* delta of target i and body j of request r at the instant jd
PairDelta(sky, r, i, j, jd) ==
    LET res == ResolveTarget(r.target.items[i], r.natal_chart)
    IN  Delta(BodyLon(sky, GetAttr(Upper(r.bodies.items[j])), jd),
              TargetLon(sky, res[2], res[3], jd))

\* the aspects of r that pass the folded-defect test for the pair at jd
MatchingAspects(sky, r, i, j, jd) ==
    {a \in 1..Len(r.aspect.items) :
        Defect(PairDelta(sky, r, i, j, jd), r.aspect.items[a]) <= r.orb}

\* the resolved (target, body) pairs of r whose body is called name and that match at jd
MatchingPairs(sky, r, name, jd) ==
    {p \in (1..Len(r.target.items)) \X (1..Len(r.bodies.items)) :
        /\ Upper(r.bodies.items[p[2]]) = name
        /\ ~Unknown(r.bodies.items[p[2]])
        /\ Resolvable(r, r.target.items[p[1]])
        /\ MatchingAspects(sky, r, p[1], p[2], jd) # {}}

\* the sampled instants jd_start + k * step <= jd_end
Instants == {jd_start + k * step : k \in 0..(NumSamples(req) - 1)}

EventsAt(name, jd) == {h \in 1..Len(hits) : hits[h].planet = name /\ hits[h].jd = jd}

-----------------------------------------------------------------------------
\* C1: when the scan returns, every sampled instant of every resolved
\* (target, body) pair has contributed exactly one event if at least one listed
\* aspect passes the defect test there and none otherwise, also where two or
\* more aspects pass at once; nothing else is in the list.
C1_OneEventPerMatch ==
    Returned =>
        /\ \A j \in 1..Len(Items) : \A jd \in Instants :
              Cardinality(EventsAt(Upper(Items[j]), jd))
                  = Cardinality(MatchingPairs(eph, req, Upper(Items[j]), jd))
        /\ \A h \in 1..Len(hits) :
              /\ hits[h].jd \in Instants
              /\ \E j \in 1..Len(Items) : hits[h].planet = Upper(Items[j]) /\ ~Unknown(Items[j])

\* a scan has returned an event for an instant at which two aspects matched
C1_Witness ==
    /\ Returned
    /\ Len(targets) = 1
    /\ Len(Items) = 1
    /\ \E h \in 1..Len(hits) :
          /\ Cardinality(MatchingAspects(eph, req, 1, 1, hits[h].jd)) >= 2
          /\ Cardinality(EventsAt(hits[h].planet, hits[h].jd)) = 1

-----------------------------------------------------------------------------
\* C2 as stated: the returned list is non-decreasing by utc string and no
\* event of a later instant stands before an event of an earlier instant.
C2_Chronological ==
    Returned =>
        \A i, j \in 1..Len(hits) :
            i < j => (~StrLess(hits[j].utc, hits[i].utc) /\ hits[i].jd <= hits[j].jd)

\* C2 amended: the returned list is non-decreasing by utc string, and an event
\* of a later instant stands before an event of an earlier instant only when
\* the two carry the same utc string (the two instants format to one minute).
C2_SortedByUtc ==
    Returned =>
        \A i, j \in 1..Len(hits) :
            i < j => /\ ~StrLess(hits[j].utc, hits[i].utc)
                     /\ (hits[i].jd > hits[j].jd => hits[i].utc = hits[j].utc)

\* a returned list of two bodies in which the sort had to move an event
\* forward over an event of a later instant
C2_Witness ==
    /\ Returned
    /\ Len(hits) >= 3
    /\ \E i, j \in 1..Len(hits) :
          /\ i < j
          /\ hits[i].planet # hits[j].planet
          /\ hits[i].jd < hits[j].jd
          /\ hits[i].planet = Upper(Items[2])
          /\ hits[j].planet = Upper(Items[1])

-----------------------------------------------------------------------------
\* the request without its j-th body
WithoutBody(r, j) ==
    [r EXCEPT !.bodies.items = SubSeq(@, 1, j - 1) \o SubSeq(@, j + 1, Len(@))]

\* the request without its i-th target
WithoutTarget(r, i) ==
    [r EXCEPT !.target.items = SubSeq(@, 1, i - 1) \o SubSeq(@, i + 1, Len(@))]

\* a request of list bodies that passes validation and names an unresolvable element
HasUnresolvable(r) ==
    /\ ~Rejected(r) /\ ~DateFails(r) /\ r.bodies.kind = "list"
    /\ \/ \E j \in 1..Len(r.bodies.items) : Unknown(r.bodies.items[j])
       \/ \E i \in 1..Len(r.target.items) :
             r.target.items[i].type = "str" /\ ~Resolvable(r, r.target.items[i])

\* C3: an unknown body name, or a string target that is neither a natal key
\* nor a body name, never fails the request, and the returned events are those
\* of the request with that element removed.
C3_SkipUnresolvable ==
    HasUnresolvable(req) =>
        /\ response.status \in {0, 200}
        /\ Returned =>
              /\ \A j \in 1..Len(Items) :
                    Unknown(Items[j]) => hits = ScanHits(eph, WithoutBody(req, j))
              /\ \A i \in 1..Len(targets) :
                    (targets[i].type = "str" /\ ~Resolvable(req, targets[i]))
                        => hits = ScanHits(eph, WithoutTarget(req, i))

\* a scan with an unknown body and an unresolvable target has returned events
C3_Witness ==
    /\ Returned
    /\ hits # <<>>
    /\ \E j \in 1..Len(Items) : Unknown(Items[j])
    /\ \E i \in 1..Len(targets) : targets[i].type = "str" /\ ~Resolvable(req, targets[i])

-----------------------------------------------------------------------------
\* a required field is missing, a date does not parse, or bodies is no list
Malformed(r) ==
    \/ r.bodies.kind \in {"missing", "str", "num"}
    \/ MissingField(r)
    \/ DateFails(r)

\* C4: a malformed request is answered with an error and never with a list of
\* events.
C4_MalformedRejected == (Malformed(req) /\ Done) => response.status # 200

-----------------------------------------------------------------------------
\* the distance round the circle between the separation and the aspect angle
RotDist(delta, asp) ==
    LET m == (delta - asp) % FullCircle
    IN  Min(m, FullCircle - m)

\* delta of the pair being sampled
CurDelta == Delta(BodyLon(eph, pl_id, jd_curr), TargetLon(eph, dyn_pl_id, base_t_lon, jd_curr))

\* C5: at every sampled instant and for every listed aspect angle the defect
\* is the rotational distance between the separation and the angle, so it lies
\* in [0, 180] and the test passes only within orb of the angle modulo 360.
C5_DefectIsDistance ==
    (pc = "while" /\ jd_curr <= jd_end) =>
        \A a \in 1..Len(aspects) :
            /\ Defect(CurDelta, aspects[a]) \in 0..180
            /\ Defect(CurDelta, aspects[a]) = RotDist(CurDelta, aspects[a])
            /\ Matches(CurDelta, aspects[a], req.orb) => RotDist(CurDelta, aspects[a]) <= req.orb

-----------------------------------------------------------------------------
WiderOrbs(o) == {o + 1, o + 90}

\* the events of request r before the sort
Appended(sky, r) == TargetLoop(sky, r, r.target.items)

Range(f) == {f[x] : x \in DOMAIN f}

\* C6: every event the scan returns is also returned by the same request with
\* a larger orb.
C6_OrbMonotone ==
    (Returned /\ Scannable(req)) =>
        \A o \in WiderOrbs(req.orb) : Range(hits) \subseteq Range(Appended(eph, [req EXCEPT !.orb = o]))

\* a scan has returned events and a larger orb returns more
C6_Witness ==
    /\ Returned /\ Scannable(req)
    /\ hits # <<>>
    /\ Range(Appended(eph, [req EXCEPT !.orb = req.orb + 1])) # Range(hits)

-----------------------------------------------------------------------------
\* one body scanned against one moving target, at aspect 0 or at aspect 180
SwapShape(r) ==
    /\ Scannable(r)
    /\ r.bodies.kind = "list" /\ Len(r.bodies.items) = 1 /\ ~Unknown(r.bodies.items[1])
    /\ r.target.kind = "scalar" /\ r.target.items[1].type = "str"
    /\ ResolveTarget(r.target.items[1], r.natal_chart)[2] # NoneId
    /\ Upper(r.bodies.items[1]) \notin DOMAIN r.natal_chart
    /\ r.aspect.items \in {<<0>>, <<180>>}

\* the same request with body and target exchanged
Swap(r) ==
    [r EXCEPT !.bodies.items = <<r.target.items[1].str>>,
              !.target.items = <<Str(r.bodies.items[1])>>]

InstantsOf(h) == {h[x].jd : x \in DOMAIN h}

\* C7: at aspect 0 and at aspect 180, body A against the moving target B
\* matches at the same sampled instants as body B against the moving target A.
C7_Symmetric ==
    (Returned /\ SwapShape(req)) => InstantsOf(hits) = InstantsOf(ScanHits(eph, Swap(req)))

\* a scan of one body against another, moving, body has returned an event at
\* an instant where the two are apart
C7_Witness ==
    /\ Returned /\ SwapShape(req)
    /\ Upper(Items[1]) # Upper(targets[1].str)
    /\ \E h \in 1..Len(hits) : PairDelta(eph, req, 1, 1, hits[h].jd) \notin {0, 180}

-----------------------------------------------------------------------------
\* C8: an event's motion is "R" exactly when the speed of its own body at its
\* own instant is negative, and "D" otherwise.
C8_MotionFromSpeed ==
    \A h \in 1..Len(hits) :
        hits[h].motion = (IF CalcSpeed(eph, GetAttr(hits[h].planet), hits[h].jd) < 0 THEN "R" ELSE "D")

\* one body has an "R" event while its moving target does not run backward,
\* a "D" event at another instant, and a "D" event of a standing body is in
\* the list
C8_Witness ==
    /\ Returned
    /\ \E h, g \in 1..Len(hits) :
          /\ hits[h].planet = hits[g].planet
          /\ hits[h].motion = "R" /\ hits[g].motion = "D"
          /\ \E i \in 1..Len(targets) :
                LET res == ResolveTarget(targets[i], req.natal_chart)
                IN  res[1] /\ res[2] # NoneId /\ CalcSpeed(eph, res[2], hits[h].jd) >= 0
    /\ \E h \in 1..Len(hits) :
          hits[h].motion = "D" /\ CalcSpeed(eph, GetAttr(hits[h].planet), hits[h].jd) = 0

-----------------------------------------------------------------------------
\* the minute of ut with the seconds cut off
TruncMinutes(ut, hr) == ((ut - hr * TicksPerHour) * MinutesPerHour) \div TicksPerHour

\* C9: the utc string of every returned event is the instant's calendar time
\* with the seconds truncated, so its hour is in 0..23 and its minute in 0..59.
C9_TruncatedMinute ==
    Returned => \A h \in 1..Len(hits) :
        LET r == RevJul(hits[h].jd)
            hr == IntHours(r[4])
            mi == TruncMinutes(r[4], hr)
        IN  /\ hr \in 0..23 /\ mi \in 0..59
            /\ hits[h].utc = FormatTs(r[1], r[2], r[3], hr, mi)

-----------------------------------------------------------------------------
\* C10: whenever a sampling loop is about to sample an instant, step > 0, so
\* each pass brings jd_curr nearer to its end beyond jd_end.
C10_StepPositive == (pc = "while" /\ jd_curr <= jd_end) => step > 0

====
